---- MODULE Spec2Model ----
(***************************************************************************)
(* A model of trm.ultracam.CCD (src/trm/ultracam/CCD.py): the CCD          *)
(* container of Window objects, its equality, element access, type         *)
(* conversion, geometric cropping and arithmetic.                          *)
(*                                                                         *)
(* Python objects have identity: a CCD holds a list of REFERENCES to       *)
(* Window objects.  The model keeps the Window objects in a heap (heap)    *)
(* and a CCD's _data as a sequence of heap references, so that two CCDs    *)
(* (or two positions of one CCD) may hold the same Window object, as the   *)
(* constructor allows.  The Window class itself (Window.py) is not part    *)
(* of the sources at hand; its operations are modelled from the            *)
(* specification's Window contract (section 4.1) and are the Win...        *)
(* operators below.                                                        *)
(***************************************************************************)
EXTENDS Integers, Sequences, FiniteSets, TLC

VARIABLES
    heap,   \* the Window objects: reference -> Window value
    ccd,    \* the two CCD objects of a session: "a" (self) and "b" (other)
    last,   \* the last call made: its inputs, the state before it, its outcome
    steps   \* the number of arithmetic calls made so far

vars == <<heap, ccd, last, steps>>

----------------------------------------------------------------------------
(* Bounds of the model. *)

\* the longest window list a CCD is built from
MaxLen == 2

\* the most arithmetic calls made one after the other in one session
MaxSteps == 1

\* the largest magnitude of a floating pixel value the model represents
Huge == 1000000000

(* Program constants. *)

\* the largest unsigned 2-byte integer (CCD.toInt's range check)
U16Max == 65535

\* a reference that is not a Window: isinstance(win, Window) is false of it
NotAWindow == 0

Refs == {1, 2, 3}

IsWindow(v) == v \in Refs

SeqsUpTo(S, n) == UNION {[1..k -> S] : k \in 0..n}

\* lists of Window references, as a successfully constructed CCD holds
WinLists == SeqsUpTo(Refs, MaxLen)

\* what a caller may supply as a list element: a Window or something else
Elements == {1, 2, NotAWindow}

\* lists a caller may supply: any element may be a non-Window
AnyLists == SeqsUpTo(Elements, MaxLen)

IsUhead(h) == h \in {"uheadA", "uheadB"}

Min2(x, y) == IF x <= y THEN x ELSE y

----------------------------------------------------------------------------
(* The Window contract (specification section 4.1).                        *)
(* A Window value: lower-left corner (llx, lly) in unbinned pixels, binned *)
(* dimensions (nx, ny), binning factors (xbin, ybin), an element kind and  *)
(* a buffer of ny rows of nx pixels.  Pixel values are modelled on the     *)
(* integer grid.                                                           *)

IsIntegerKind(k) == k = "uint16"

IsFloatingKind(k) == k \in {"float32", "float64"}

Pixels(w) == {w.data[r][c] : r \in 1..w.ny, c \in 1..w.nx}

WinMin(w) == CHOOSE v \in Pixels(w) : \A u \in Pixels(w) : v <= u

WinMax(w) == CHOOSE v \in Pixels(w) : \A u \in Pixels(w) : v >= u

\* storing a value in a buffer of the given kind: unsigned 16-bit wraps
Cast(kind, v) == IF IsIntegerKind(kind) THEN v % (U16Max + 1) ELSE v

\* Window.totype(kind): converts the buffer to the requested kind
WinToType(w, kind) ==
    [w EXCEPT !.dtype = kind,
              !.data = [r \in 1..w.ny |-> [c \in 1..w.nx |->
                           Cast(kind, w.data[r][c])]]]

SameFormat(w, o) ==
    /\ w.llx = o.llx /\ w.lly = o.lly
    /\ w.nx = o.nx /\ w.ny = o.ny
    /\ w.xbin = o.xbin /\ w.ybin = o.ybin

\* Window equality: position, binning, shape and all pixel values match
WinEq(w, o) == SameFormat(w, o) /\ w.data = o.data

Inside(w, o) ==
    /\ w.llx <= o.llx
    /\ w.lly <= o.lly
    /\ o.llx + o.xbin * o.nx <= w.llx + w.xbin * w.nx
    /\ o.lly + o.ybin * o.ny <= w.lly + w.ybin * w.ny

\* w >= o: o's region lies within w's at a compatible or coarser binning
WinGe(w, o) ==
    /\ Inside(w, o)
    /\ o.xbin % w.xbin = 0 /\ o.ybin % w.ybin = 0
    /\ (o.llx - w.llx) % w.xbin = 0 /\ (o.lly - w.lly) % w.ybin = 0

\* Window.canCropTo: w can be cropped to exactly o's region and binning
WinCanCropTo(w, o) ==
    /\ Inside(w, o)
    /\ o.xbin = w.xbin /\ o.ybin = w.ybin
    /\ (o.llx - w.llx) % w.xbin = 0 /\ (o.lly - w.lly) % w.ybin = 0

\* Window.cropTo: a new Window of o's format cut out of w
WinCropTo(w, o) ==
    LET x0 == (o.llx - w.llx) \div w.xbin
        y0 == (o.lly - w.lly) \div w.ybin
    IN  [llx |-> o.llx, lly |-> o.lly, nx |-> o.nx, ny |-> o.ny,
         xbin |-> o.xbin, ybin |-> o.ybin, dtype |-> w.dtype,
         data |-> [r \in 1..o.ny |-> [c \in 1..o.nx |-> w.data[y0 + r][x0 + c]]]]

Abs(x) == IF x < 0 THEN -x ELSE x

\* a floating value past the largest magnitude represented stands at it,
\* as an overflowing float stands at infinity
Clamp(v) == IF v > Huge THEN Huge ELSE IF v < -Huge THEN -Huge ELSE v

\* the product of two floating values
FloatMul(x, y) ==
    IF x = 0 \/ y = 0 THEN 0
    ELSE IF Abs(y) <= Huge \div Abs(x) THEN x * y
    ELSE IF (x < 0) = (y < 0) THEN Huge ELSE -Huge

\* the product of two unsigned 2-byte values, wrapped to 2 bytes
U16Mul(x, y) ==
    (x * (y % 256) + ((x * (y \div 256)) % (U16Max + 1)) * 256) % (U16Max + 1)

\* division on the integer grid, truncating; a zero divisor gives 0
PixDiv(x, y) ==
    IF y = 0 THEN 0
    ELSE IF (x < 0) = (y < 0) THEN Abs(x) \div Abs(y)
         ELSE -(Abs(x) \div Abs(y))

Ops == {"add", "sub", "mul", "div"}

IsU16(x) == 0 <= x /\ x <= U16Max

\* x op y as stored in a buffer of the given kind
PixOp(kind, op, x, y) ==
    CASE op = "add" -> Cast(kind, Clamp(x + y))
      [] op = "sub" -> Cast(kind, Clamp(x - y))
      [] op = "mul" -> IF IsIntegerKind(kind) /\ IsU16(x) /\ IsU16(y)
                       THEN U16Mul(x, y)
                       ELSE Cast(kind, FloatMul(x, y))
      [] op = "div" -> Cast(kind, PixDiv(x, y))

Promote(k1, k2) ==
    IF "float64" \in {k1, k2} THEN "float64"
    ELSE IF "float32" \in {k1, k2} THEN "float32"
    ELSE "uint16"

\* w op o, a new Window (elementwise, equal shapes)
WinArith(op, w, o) ==
    LET k == Promote(w.dtype, o.dtype)
    IN  [w EXCEPT !.dtype = k,
                  !.data = [r \in 1..w.ny |-> [c \in 1..w.nx |->
                               PixOp(k, op, w.data[r][c], o.data[r][c])]]]

\* w op s for a number s, a new Window
WinArithScalar(op, w, s) ==
    [w EXCEPT !.data = [r \in 1..w.ny |-> [c \in 1..w.nx |->
                           PixOp(w.dtype, op, w.data[r][c], s)]]]

\* s op w for a number s, a new Window
WinRArithScalar(op, s, w) ==
    [w EXCEPT !.data = [r \in 1..w.ny |-> [c \in 1..w.nx |->
                           PixOp(w.dtype, op, s, w.data[r][c])]]]

\* w op= o: w's own buffer is overwritten, its kind kept
WinIArith(op, w, o) ==
    [w EXCEPT !.data = [r \in 1..w.ny |-> [c \in 1..w.nx |->
                           PixOp(w.dtype, op, w.data[r][c], o.data[r][c])]]]

\* w op= s for a number s: w's own buffer is overwritten, its kind kept
WinIArithScalar(op, w, s) ==
    [w EXCEPT !.data = [r \in 1..w.ny |-> [c \in 1..w.nx |->
                           PixOp(w.dtype, op, w.data[r][c], s)]]]

----------------------------------------------------------------------------
(* The record of a call. *)

NoArg == [wins |-> <<>>, idx |-> 0, head |-> "None", scalar |-> 0,
          single |-> FALSE, op |-> "none", other |-> "none"]

NoCCD == [data |-> <<>>, time |-> "none", nxmax |-> 0, nymax |-> 0,
          good |-> FALSE, head |-> "None"]

\* a call that returned nothing and raised nothing
Quiet(name, arg) ==
    [op |-> name, arg |-> arg, pre |-> [ccd |-> ccd, heap |-> heap],
     raised |-> "none", ordinal |-> 0, rkind |-> "none", rbool |-> FALSE,
     rccd |-> NoCCD, warnings |-> 0, prevop |-> "none"]

Raised(name, arg, exc) == [Quiet(name, arg) EXCEPT !.raised = exc]

ReturnedBool(name, arg, b) ==
    [Quiet(name, arg) EXCEPT !.rkind = "bool", !.rbool = b]

ReturnedCCD(name, arg, c) ==
    [Quiet(name, arg) EXCEPT !.rkind = "ccd", !.rccd = c]

ReturnedSelf(name, arg) == [Quiet(name, arg) EXCEPT !.rkind = "self"]

InitLast ==
    [op |-> "none", arg |-> NoArg, pre |-> [ccd |-> <<>>, heap |-> <<>>],
     raised |-> "none", ordinal |-> 0, rkind |-> "none", rbool |-> FALSE,
     rccd |-> NoCCD, warnings |-> 0, prevop |-> "none"]

----------------------------------------------------------------------------
(* Construction and element access. *)

\* CCD.__init__: the loop over wins raising on the first non-Window
InitWinsOk(wins) == \A i \in 1..Len(wins) : IsWindow(wins[i])

\* CCD.__init__: head must be None or a Uhead
InitHeadOk(head) == head = "None" \/ IsUhead(head)

\* CCD.__init__: the object built when no check raises
NewCCD(wins, time, nxmax, nymax, good, head) ==
    [data |-> wins, time |-> time, nxmax |-> nxmax, nymax |-> nymax,
     good |-> good, head |-> head]

\* CCD.__setitem__: the isinstance check
SetItemOk(win) == IsWindow(win)

\* the check made of the first element only
SetDataOkFirstOnly(wins) == wins = <<>> \/ IsWindow(wins[1])

\* CCD.data setter: the loop over wins raising on the first non-Window
SetDataOk(wins) == \A i \in 1..Len(wins) : IsWindow(wins[i])

\* a = CCD(wins, time, nxmax, nymax, good, head); a keeps its old object
\* when the constructor raises
CCDInit(wins, time, nxmax, nymax, good, head) ==
    LET arg == [NoArg EXCEPT !.wins = wins, !.head = head]
    IN  /\ IF ~InitWinsOk(wins) \/ ~InitHeadOk(head)
           THEN /\ last' = Raised("__init__", arg, "UltracamError")
                /\ ccd' = ccd
           ELSE /\ last' = Quiet("__init__", arg)
                /\ ccd' = [ccd EXCEPT
                             !["a"] = NewCCD(wins, time, nxmax, nymax, good, head)]
        /\ UNCHANGED <<heap, steps>>

\* a[i] = win (i counted from 1; past the end Python raises IndexError)
SetItem(i, win) ==
    LET arg == [NoArg EXCEPT !.idx = i, !.wins = <<win>>]
    IN  /\ IF ~SetItemOk(win)
           THEN /\ last' = Raised("__setitem__", arg, "UltracamError")
                /\ ccd' = ccd
           ELSE IF i > Len(ccd["a"].data)
           THEN /\ last' = Raised("__setitem__", arg, "IndexError")
                /\ ccd' = ccd
           ELSE /\ last' = Quiet("__setitem__", arg)
                /\ ccd' = [ccd EXCEPT !["a"].data[i] = win]
        /\ UNCHANGED <<heap, steps>>

\* a.data = wins
SetData(wins) ==
    LET arg == [NoArg EXCEPT !.wins = wins]
    IN  /\ IF ~SetDataOk(wins)
           THEN /\ last' = Raised("data", arg, "UltracamError")
                /\ ccd' = ccd
           ELSE /\ last' = Quiet("data", arg)
                /\ ccd' = [ccd EXCEPT !["a"].data = wins]
        /\ UNCHANGED <<heap, steps>>

----------------------------------------------------------------------------
(* Type introspection and conversion. *)

\* CCD.anyInt
anyInt(h, c) ==
    \E i \in 1..Len(c.data) : IsIntegerKind(h[c.data[i]].dtype)

\* CCD.anyFloat
anyFloat(h, c) ==
    \E i \in 1..Len(c.data) : IsFloatingKind(h[c.data[i]].dtype)

\* CCD.toFloat: the kind asked of Window.totype
FloatKind(single) == IF single THEN "float32" ELSE "float64"

RECURSIVE ToTypeLoop(_, _, _)
\* CCD.toFloat: the loop, converting each Window object of the list in turn
ToTypeLoop(h, data, kind) ==
    IF data = <<>> THEN h
    ELSE ToTypeLoop([h EXCEPT ![Head(data)] = WinToType(@, kind)],
                    Tail(data), kind)

\* CCD.toInt: the range test that issues the warning
OutOfRange(w) == WinMin(w) < 0 \/ WinMax(w) > U16Max

RECURSIVE ToIntLoopSkipping(_, _, _)
\* the loop leaving a Window it warned about unconverted
ToIntLoopSkipping(h, data, warns) ==
    IF data = <<>> THEN [heap |-> h, warnings |-> warns]
    ELSE LET w == h[Head(data)]
         IN  IF OutOfRange(w)
             THEN ToIntLoopSkipping(h, Tail(data), warns + 1)
             ELSE ToIntLoopSkipping([h EXCEPT ![Head(data)] = WinToType(w, "uint16")],
                                    Tail(data), warns)

RECURSIVE ToIntLoop(_, _, _)
\* CCD.toInt: the loop; warns counts the warnings issued
ToIntLoop(h, data, warns) ==
    IF data = <<>> THEN [heap |-> h, warnings |-> warns]
    ELSE LET w == h[Head(data)]
         IN  ToIntLoop([h EXCEPT ![Head(data)] = WinToType(w, "uint16")],
                       Tail(data),
                       IF OutOfRange(w) THEN warns + 1 ELSE warns)

\* the name a conversion call is remembered by
CallName(l) ==
    IF l.op = "toFloat"
    THEN (IF l.arg.single THEN "toFloat(single)" ELSE "toFloat(double)")
    ELSE l.op

\* a.toFloat(single)
toFloat(single) ==
    /\ heap' = ToTypeLoop(heap, ccd["a"].data, FloatKind(single))
    /\ last' = Quiet("toFloat", [NoArg EXCEPT !.single = single])
    /\ UNCHANGED <<ccd, steps>>

\* a.toInt()
toInt ==
    LET r == ToIntLoop(heap, ccd["a"].data, 0)
    IN  /\ heap' = r.heap
        /\ last' = [Quiet("toInt", NoArg) EXCEPT !.warnings = r.warnings]
        /\ UNCHANGED <<ccd, steps>>

\* a.anyInt(), remembering the call made just before it
AnyIntCall ==
    /\ last' = [ReturnedBool("anyInt", NoArg, anyInt(heap, ccd["a"]))
                  EXCEPT !.prevop = CallName(last)]
    /\ UNCHANGED <<heap, ccd, steps>>

\* a.anyFloat(), remembering the call made just before it
AnyFloatCall ==
    /\ last' = [ReturnedBool("anyFloat", NoArg, anyFloat(heap, ccd["a"]))
                  EXCEPT !.prevop = CallName(last)]
    /\ UNCHANGED <<heap, ccd, steps>>

----------------------------------------------------------------------------
(* Equality. *)

\* Window !=, the negation of Window equality
WinNe(w, o) == ~WinEq(w, o)

\* equality without the comparison of the window counts
CCDEqNoCount(h, s, o) ==
    IF s.nxmax # o.nxmax \/ s.nymax # o.nymax
    THEN FALSE
    ELSE \A i \in 1..Min2(Len(s.data), Len(o.data)) :
            ~WinNe(h[s.data[i]], h[o.data[i]])

\* CCD.__eq__ on self s and other o
CCDEq(h, s, o) ==
    IF s.nxmax # o.nxmax \/ s.nymax # o.nymax \/ Len(s.data) # Len(o.data)
    THEN FALSE
    ELSE \A i \in 1..Min2(Len(s.data), Len(o.data)) :
            ~WinNe(h[s.data[i]], h[o.data[i]])

\* CCD.__ne__: __eq__ never returns NotImplemented
CCDNe(h, s, o) == ~CCDEq(h, s, o)

\* a == b
Eq ==
    /\ last' = ReturnedBool("__eq__", NoArg, CCDEq(heap, ccd["a"], ccd["b"]))
    /\ UNCHANGED <<heap, ccd, steps>>

\* a != b
Ne ==
    /\ last' = ReturnedBool("__ne__", NoArg, CCDNe(heap, ccd["a"], ccd["b"]))
    /\ UNCHANGED <<heap, ccd, steps>>

----------------------------------------------------------------------------
(* Geometric cropping. *)

RECURSIVE FirstEnclosing(_, _, _, _)
\* CCD.canCropTo: the inner loop; the position of the first Window of
\* data (from position i on) that is >= wino, 0 when the loop runs out
FirstEnclosing(h, data, wino, i) ==
    IF i > Len(data) THEN 0
    ELSE IF WinGe(h[data[i]], wino) THEN i
    ELSE FirstEnclosing(h, data, wino, i + 1)

\* canCropTo without the comparison of nxmax and nymax
canCropToNoDims(h, s, o) ==
    \A j \in 1..Len(o.data) : FirstEnclosing(h, s.data, h[o.data[j]], 1) # 0

\* CCD.canCropTo on self s and other o
canCropTo(h, s, o) ==
    IF s.nxmax # o.nxmax \/ s.nymax # o.nymax THEN FALSE
    ELSE \A j \in 1..Len(o.data) :
            FirstEnclosing(h, s.data, h[o.data[j]], 1) # 0

RECURSIVE LastCroppable(_, _, _, _)
\* the inner loop without its break: the last Window that can be cropped
LastCroppable(h, data, wino, i) ==
    IF i > Len(data) THEN 0
    ELSE LET later == LastCroppable(h, data, wino, i + 1)
         IN  IF later # 0 THEN later
             ELSE IF WinCanCropTo(h[data[i]], wino) THEN i ELSE 0

RECURSIVE FirstCroppable(_, _, _, _)
\* CCD.cropTo: the inner loop; the position of the first Window of data
\* (from position i on) whose canCropTo accepts wino, 0 when it runs out
FirstCroppable(h, data, wino, i) ==
    IF i > Len(data) THEN 0
    ELSE IF WinCanCropTo(h[data[i]], wino) THEN i
    ELSE FirstCroppable(h, data, wino, i + 1)

\* the loop counter named as it is, counted from 0
OrdinalFromZero(nwino) == nwino

\* CCD.cropTo: the window number the error message names (str(nwino+1)),
\* for the 0-based loop counter nwino
Ordinal(nwino) == nwino + 1

RECURSIVE CropLoop(_, _, _, _, _)
\* CCD.cropTo: the outer loop over other's windows from position j
\* (counted from 1) on, wins being the crops collected so far
CropLoop(h, s, o, j, wins) ==
    IF j > Len(o.data) THEN [raised |-> "none", ordinal |-> 0, wins |-> wins]
    ELSE LET wino == h[o.data[j]]
             i == FirstCroppable(h, s.data, wino, 1)
         IN  IF i = 0
             THEN [raised |-> "UltracamError", ordinal |-> Ordinal(j - 1),
                   wins |-> <<>>]
             ELSE CropLoop(h, s, o, j + 1,
                           Append(wins, WinCropTo(h[s.data[i]], wino)))

\* CCD.cropTo on self s and other o
cropTo(h, s, o) ==
    IF s.nxmax # o.nxmax \/ s.nymax # o.nymax
    THEN [raised |-> "UltracamError", ordinal |-> 0, wins |-> <<>>]
    ELSE CropLoop(h, s, o, 1, <<>>)

\* a.canCropTo(b)
CanCropToCall ==
    /\ last' = ReturnedBool("canCropTo", NoArg,
                            canCropTo(heap, ccd["a"], ccd["b"]))
    /\ UNCHANGED <<heap, ccd, steps>>

\* a.cropTo(b); the CCD returned holds new Window objects
CropToCall ==
    LET s == ccd["a"]
        r == cropTo(heap, s, ccd["b"])
    IN  /\ IF r.raised # "none"
           THEN last' = [Raised("cropTo", NoArg, r.raised)
                           EXCEPT !.ordinal = r.ordinal]
           ELSE last' = ReturnedCCD("cropTo", NoArg,
                          NewCCD(r.wins, s.time, s.nxmax, s.nymax, s.good, s.head))
        /\ UNCHANGED <<heap, ccd, steps>>

----------------------------------------------------------------------------
(* Arithmetic.  The left operand (self) is the CCD a; the other operand    *)
(* is a CCD, b or a itself, or a number.                                   *)

\* the CCD called name as the other operand
OtherCCD(name) ==
    [kind |-> "ccd", name |-> name, good |-> ccd[name].good,
     data |-> ccd[name].data, value |-> 0]

\* the number s as the other operand
OtherScalar(s) ==
    [kind |-> "scalar", name |-> "scalar", good |-> FALSE, data |-> <<>>,
     value |-> s]

\* isinstance(other, CCD)
IsCCD(other) == other.kind = "ccd"

\* the loop returning after its first pair
IArithLoopOnce(op, h, sdata, odata, i) ==
    IF i > Len(sdata) \/ i > Len(odata) THEN h
    ELSE [h EXCEPT ![sdata[i]] = WinIArith(op, h[sdata[i]], h[odata[i]])]

RECURSIVE IArithLoop(_, _, _, _, _)
\* __iadd__ and the like, other a CCD: win op= owin over zip(self._data,
\* other._data) from position i on, each step on the Window objects as
\* the steps before it left them
IArithLoop(op, h, sdata, odata, i) ==
    IF i > Len(sdata) \/ i > Len(odata) THEN h
    ELSE IArithLoop(op,
                    [h EXCEPT ![sdata[i]] = WinIArith(op, h[sdata[i]], h[odata[i]])],
                    sdata, odata, i + 1)

RECURSIVE IScalarLoop(_, _, _, _)
\* __iadd__ and the like, other a number: win op= other over self._data
IScalarLoop(op, h, sdata, s) ==
    IF sdata = <<>> THEN h
    ELSE IScalarLoop(op,
                     [h EXCEPT ![Head(sdata)] = WinIArithScalar(op, @, s)],
                     Tail(sdata), s)

\* __add__ and the like: the list twins
Twins(op, h, s, other) ==
    IF IsCCD(other)
    THEN [i \in 1..Min2(Len(s.data), Len(other.data)) |->
            WinArith(op, h[s.data[i]], h[other.data[i]])]
    ELSE [i \in 1..Len(s.data) |-> WinArithScalar(op, h[s.data[i]], other.value)]

\* __radd__ and the like: the list twins
RTwins(op, h, s, other) ==
    [i \in 1..Len(s.data) |-> WinRArithScalar(op, other.value, h[s.data[i]])]

\* the flag of the left operand alone
GoodOfSelf(sgood, other) == [raised |-> "none", value |-> sgood]

\* the expression self.good and other.good: other.good is read only when
\* self.good is true, and a number has no attribute good
GoodAnd(sgood, other) ==
    IF ~sgood THEN [raised |-> "none", value |-> FALSE]
    ELSE IF IsCCD(other) THEN [raised |-> "none", value |-> other.good]
    ELSE [raised |-> "AttributeError", value |-> FALSE]

\* the return statement of the value-returning and reflected operators
ReturnNew(name, arg, twins, s, other) ==
    LET g == GoodAnd(s.good, other)
    IN  IF g.raised # "none" THEN Raised(name, arg, g.raised)
        ELSE ReturnedCCD(name, arg,
                 NewCCD(twins, s.time, s.nxmax, s.nymax, g.value, s.head))

ArithArg(op, other) ==
    [NoArg EXCEPT !.op = op, !.other = other.name, !.scalar = other.value]

\* a op= other
InPlace(op, other) ==
    /\ steps < MaxSteps
    /\ steps' = steps + 1
    /\ heap' = IF IsCCD(other)
               THEN IArithLoop(op, heap, ccd["a"].data, other.data, 1)
               ELSE IScalarLoop(op, heap, ccd["a"].data, other.value)
    /\ last' = ReturnedSelf("inplace", ArithArg(op, other))
    /\ UNCHANGED ccd

\* a op other
Binary(op, other) ==
    /\ steps < MaxSteps
    /\ steps' = steps + 1
    /\ last' = ReturnNew("binary", ArithArg(op, other),
                         Twins(op, heap, ccd["a"], other), ccd["a"], other)
    /\ UNCHANGED <<heap, ccd>>

\* s op a for a number s
Reflected(op, other) ==
    /\ steps < MaxSteps
    /\ steps' = steps + 1
    /\ last' = ReturnNew("reflected", ArithArg(op, other),
                         RTwins(op, heap, ccd["a"], other), ccd["a"], other)
    /\ UNCHANGED <<heap, ccd>>

----------------------------------------------------------------------------
(* The sessions. *)

Big ==
    [llx |-> 1, lly |-> 1, nx |-> 4, ny |-> 2, xbin |-> 1, ybin |-> 1,
     dtype |-> "uint16", data |-> <<<<1, 2, 3, 4>>, <<5, 6, 7, 8>>>>]

Small ==
    [llx |-> 2, lly |-> 1, nx |-> 2, ny |-> 1, xbin |-> 1, ybin |-> 1,
     dtype |-> "float32", data |-> <<<<9, 9>>>>]

Binned ==
    [llx |-> 1, lly |-> 1, nx |-> 2, ny |-> 2, xbin |-> 2, ybin |-> 1,
     dtype |-> "float64", data |-> <<<<3, 7>>, <<11, 15>>>>]

\* Big's format and pixel values in another Window object
BigAgain == [Big EXCEPT !.dtype = "float64"]

CropHeap == <<Big, Small, Binned>>

EqHeap == <<Big, Small, BigAgain>>

\* Windows of one shape, for arithmetic
ArithHeap ==
    <<[llx |-> 1, lly |-> 1, nx |-> 2, ny |-> 1, xbin |-> 1, ybin |-> 1,
       dtype |-> "uint16", data |-> <<<<6, 0>>>>],
      [llx |-> 1, lly |-> 1, nx |-> 2, ny |-> 1, xbin |-> 1, ybin |-> 1,
       dtype |-> "float32", data |-> <<<<3, 2>>>>],
      [llx |-> 1, lly |-> 1, nx |-> 2, ny |-> 1, xbin |-> 1, ybin |-> 1,
       dtype |-> "float64", data |-> <<<<-2, 5>>>>]>>

\* Windows of every kind, in and out of the unsigned 2-byte range
ConvHeap ==
    <<[llx |-> 1, lly |-> 1, nx |-> 2, ny |-> 1, xbin |-> 1, ybin |-> 1,
       dtype |-> "uint16", data |-> <<<<500, 7>>>>],
      [llx |-> 3, lly |-> 1, nx |-> 2, ny |-> 1, xbin |-> 1, ybin |-> 1,
       dtype |-> "float32", data |-> <<<<-3, 70000>>>>],
      [llx |-> 1, lly |-> 2, nx |-> 1, ny |-> 1, xbin |-> 1, ybin |-> 1,
       dtype |-> "float64", data |-> <<<<12>>>>]>>

SensorDims == {[nxmax |-> 4, nymax |-> 2], [nxmax |-> 5, nymax |-> 2],
               [nxmax |-> 4, nymax |-> 3]}

Heads == {"None", "uheadA", "notAUhead"}

\* lists of the Window objects 1 and 2, which a and b may share
SharedLists == {l \in AnyLists : InitWinsOk(l)}

Scalars == {2}

InitSeq ==
    /\ heap = CropHeap
    /\ \E wa \in SharedLists :
          ccd = [a |-> NewCCD(wa, "ta", 4, 2, TRUE, "uheadA"),
                 b |-> NewCCD(<<>>, "tb", 4, 2, TRUE, "uheadB")]
    /\ last = InitLast
    /\ steps = 0

NextSeq ==
    \/ \E wins \in AnyLists, head \in Heads :
          CCDInit(wins, "ta", 4, 2, TRUE, head)
    \/ \E i \in 1..(MaxLen + 1), win \in Elements : SetItem(i, win)
    \/ \E wins \in AnyLists : SetData(wins)

\* sessions of construction, indexed set and data replacement
Spec == InitSeq /\ [][NextSeq]_vars

InitConv ==
    /\ heap = ConvHeap
    /\ \E wa \in WinLists :
          ccd = [a |-> NewCCD(wa, "ta", 4, 2, TRUE, "uheadA"),
                 b |-> NewCCD(<<>>, "tb", 4, 2, TRUE, "uheadB")]
    /\ last = InitLast
    /\ steps = 0

NextConv ==
    \/ \E single \in BOOLEAN : toFloat(single)
    \/ toInt
    \/ AnyIntCall
    \/ AnyFloatCall

\* sessions of type conversion and introspection
SpecConv == InitConv /\ [][NextConv]_vars

InitQuery ==
    /\ heap \in {CropHeap, EqHeap}
    /\ \E wa \in WinLists, wb \in WinLists, d \in SensorDims, g \in BOOLEAN :
          ccd = [a |-> NewCCD(wa, "ta", 4, 2, g, "uheadA"),
                 b |-> NewCCD(wb, "tb", d.nxmax, d.nymax, TRUE, "uheadB")]
    /\ last = InitLast
    /\ steps = 0

NextQuery ==
    \/ Eq
    \/ Ne
    \/ CanCropToCall
    \/ CropToCall

\* sessions of comparison and cropping of two CCDs
SpecQuery == InitQuery /\ [][NextQuery]_vars

InitArith ==
    /\ heap = ArithHeap
    /\ \E wa \in SeqsUpTo({1, 2}, MaxLen), wb \in SeqsUpTo({2, 3}, MaxLen),
          ga \in BOOLEAN, gb \in BOOLEAN :
          ccd = [a |-> NewCCD(wa, "ta", 4, 2, ga, "uheadA"),
                 b |-> NewCCD(wb, "tb", 5, 3, gb, "None")]
    /\ last = InitLast
    /\ steps = 0

NextArith ==
    \/ \E op \in Ops, o \in {"a", "b"} : InPlace(op, OtherCCD(o))
    \/ \E op \in Ops, s \in Scalars : InPlace(op, OtherScalar(s))
    \/ \E op \in Ops, o \in {"a", "b"} : Binary(op, OtherCCD(o))
    \/ \E op \in Ops, s \in Scalars : Binary(op, OtherScalar(s))
    \/ \E op \in Ops, s \in Scalars : Reflected(op, OtherScalar(s))

\* sessions of arithmetic on two CCDs and numbers
SpecArith == InitArith /\ [][NextArith]_vars

----------------------------------------------------------------------------
(* The properties. *)

A == ccd["a"]

B == ccd["b"]

PreA == last.pre.ccd["a"]

PreHeap == last.pre.heap

Untouched == ccd = last.pre.ccd /\ heap = last.pre.heap

SomeNonWindow(wins) == \E i \in 1..Len(wins) : wins[i] \notin Refs

\* C8: after any sequence of construction, indexed set and data
\* replacement every element of the CCD's window list is a Window;
\* construction raises UltracamError when an element is not a Window or
\* head is neither None nor a Uhead, indexed set raises it when the value
\* is not a Window, data replacement when an element is not a Window; a
\* failed indexed set or data replacement leaves the list as it was.
C8_OnlyWindows ==
    /\ \A i \in 1..Len(A.data) : A.data[i] \in Refs
    /\ (/\ last.op = "__init__"
        /\ \/ SomeNonWindow(last.arg.wins)
           \/ last.arg.head \notin {"None", "uheadA", "uheadB"})
       => last.raised = "UltracamError"
    /\ (last.op = "__setitem__" /\ SomeNonWindow(last.arg.wins))
       => last.raised = "UltracamError"
    /\ (last.op = "data" /\ SomeNonWindow(last.arg.wins))
       => last.raised = "UltracamError"
    /\ (last.op \in {"__setitem__", "data"} /\ last.raised # "none")
       => A.data = PreA.data

\* a data replacement with a non-Window after a Window was refused, the
\* CCD holding two windows
C8_Witness ==
    /\ last.op = "data"
    /\ last.raised = "UltracamError"
    /\ Len(last.arg.wins) >= 2
    /\ last.arg.wins[1] \in Refs
    /\ Len(A.data) >= 2

AllOfKind(kind) == \A i \in 1..Len(A.data) : heap[A.data[i]].dtype = kind

\* C9 as claimed: for every CCD, toInt() then anyInt() returns true and
\* anyFloat() false; toFloat(single=True) then anyFloat() returns true with
\* every window float32; toFloat(single=False) leaves every window float64.
C9_AsClaimed ==
    /\ (last.op = "anyInt" /\ last.prevop = "toInt") => last.rbool
    /\ (last.op = "anyFloat" /\ last.prevop = "toInt") => ~last.rbool
    /\ (last.op = "anyFloat" /\ last.prevop = "toFloat(single)") => last.rbool
    /\ (last.op = "toFloat" /\ last.arg.single) => AllOfKind("float32")
    /\ (last.op = "toFloat" /\ ~last.arg.single) => AllOfKind("float64")

\* C9 amended: the same for every CCD with at least one window; for a CCD
\* with no windows anyInt() and anyFloat() return false after either
\* conversion.
C9_NonEmpty ==
    /\ (last.op = "anyInt" /\ last.prevop = "toInt")
       => last.rbool = (Len(A.data) >= 1)
    /\ (last.op = "anyFloat" /\ last.prevop = "toInt") => ~last.rbool
    /\ (last.op = "anyFloat" /\ last.prevop = "toFloat(single)")
       => last.rbool = (Len(A.data) >= 1)
    /\ (last.op = "toFloat" /\ last.arg.single) => AllOfKind("float32")
    /\ (last.op = "toFloat" /\ ~last.arg.single) => AllOfKind("float64")
    /\ last.raised = "none"

\* anyInt() returned true after toInt() converted a window whose values
\* lay outside 0..65535
C9_Witness ==
    /\ last.op = "anyInt"
    /\ last.prevop = "toInt"
    /\ last.rbool
    /\ Len(A.data) >= 2
    /\ \E i \in 1..Len(A.data) :
          /\ ConvHeap[A.data[i]].dtype = "float32"
          /\ OutOfRange(ConvHeap[A.data[i]])
          /\ heap[A.data[i]].dtype = "uint16"

SameDims == A.nxmax = B.nxmax /\ A.nymax = B.nymax

\* C4: a == b is true iff nxmax, nymax and the window counts are equal and
\* window a[i] equals window b[i] at every position i; a != b is its
\* negation.
C4_Equality ==
    LET same == /\ SameDims
                /\ Len(A.data) = Len(B.data)
                /\ \A i \in 1..Len(A.data) :
                      WinEq(heap[A.data[i]], heap[B.data[i]])
    IN  /\ last.op = "__eq__" => last.rbool = same
        /\ last.op = "__ne__" => last.rbool = ~same
        /\ last.op \in {"__eq__", "__ne__"} => last.rkind = "bool" /\ Untouched

\* a == b returned false for a whose windows are a proper, non-empty
\* prefix of b's
C4_Witness ==
    /\ last.op = "__eq__"
    /\ ~last.rbool
    /\ SameDims
    /\ 1 <= Len(A.data) /\ Len(A.data) < Len(B.data)
    /\ \A i \in 1..Len(A.data) : WinEq(heap[A.data[i]], heap[B.data[i]])

\* C5: canCropTo returns false when nxmax or nymax differ; otherwise true
\* iff every window of other is enclosed (>=) by some window of self, one
\* window of self serving any number of windows of other; it changes
\* neither CCD.
C5_CanCropTo ==
    last.op = "canCropTo" =>
        /\ last.rkind = "bool"
        /\ last.rbool =
              (/\ SameDims
               /\ \A j \in 1..Len(B.data) : \E i \in 1..Len(A.data) :
                     WinGe(heap[A.data[i]], heap[B.data[j]]))
        /\ ~SameDims => ~last.rbool
        /\ Untouched

\* canCropTo returned true with the one window of self enclosing two
\* different windows of other
C5_Witness ==
    /\ last.op = "canCropTo"
    /\ last.rbool
    /\ Len(A.data) = 1
    /\ Len(B.data) = 2
    /\ B.data[1] # B.data[2]

\* the position of self's first window that can be cropped to wino is i
IsFirstFit(i, wino) ==
    /\ WinCanCropTo(heap[A.data[i]], wino)
    /\ \A m \in 1..(i - 1) : ~WinCanCropTo(heap[A.data[m]], wino)

\* C6: a successful cropTo returns a new CCD with one window per window of
\* other, window k being the crop to other[k] of the first window of self
\* whose canCropTo accepts other[k]; it carries self's time, nxmax, nymax,
\* good and head; self is unchanged.
C6_CropTo ==
    (last.op = "cropTo" /\ last.raised = "none") =>
        /\ last.rkind = "ccd"
        /\ Len(last.rccd.data) = Len(B.data)
        /\ \A k \in 1..Len(B.data) : \E i \in 1..Len(A.data) :
              /\ IsFirstFit(i, heap[B.data[k]])
              /\ last.rccd.data[k] = WinCropTo(heap[A.data[i]], heap[B.data[k]])
        /\ last.rccd.time = A.time
        /\ last.rccd.nxmax = A.nxmax
        /\ last.rccd.nymax = A.nymax
        /\ last.rccd.good = A.good
        /\ last.rccd.head = A.head
        /\ Untouched

\* cropTo succeeded on two targets, one cut from self's second window
\* though its first window encloses the other target
C6_Witness ==
    /\ last.op = "cropTo"
    /\ last.raised = "none"
    /\ Len(B.data) = 2
    /\ Len(A.data) = 2
    /\ \E k \in 1..2 : IsFirstFit(2, heap[B.data[k]])
    /\ \E k \in 1..2 : IsFirstFit(1, heap[B.data[k]])
    /\ \A k \in 1..2 : WinCanCropTo(heap[A.data[2]], heap[B.data[k]])

Unmatched(k) ==
    \A i \in 1..Len(A.data) : ~WinCanCropTo(heap[A.data[i]], heap[B.data[k]])

\* C7: cropTo raises UltracamError exactly when nxmax or nymax differ or
\* some window of other is accepted by no window of self; in the second
\* case the error names the position, counted from 1, of the first such
\* window; when it raises, nothing is returned and both CCDs are unchanged.
C7_CropToFails ==
    last.op = "cropTo" =>
        /\ last.raised \in {"none", "UltracamError"}
        /\ (last.raised = "UltracamError") =
              (~SameDims \/ \E k \in 1..Len(B.data) : Unmatched(k))
        /\ (last.raised # "none" /\ SameDims) =>
              /\ last.ordinal \in 1..Len(B.data)
              /\ Unmatched(last.ordinal)
              /\ \A k \in 1..(last.ordinal - 1) : ~Unmatched(k)
        /\ last.raised # "none" => last.rkind = "none" /\ Untouched

\* cropTo raised naming window 2 of other, its window 1 having been matched
C7_Witness ==
    /\ last.op = "cropTo"
    /\ last.raised = "UltracamError"
    /\ SameDims
    /\ last.ordinal = 2
    /\ Len(A.data) >= 1

OnCCD == last.arg.other \in {"a", "b"}

OnScalar == last.arg.other = "scalar"

\* the other operand of the last call, now and before the call
Oth == ccd[last.arg.other]

PreOth == last.pre.ccd[last.arg.other]

\* C1: a op b for CCDs a and b returns a new CCD whose good is
\* a.good AND b.good and whose time, nxmax, nymax and head are a's; a good
\* and a bad operand, in either order, give a bad CCD.
C1_BinaryGood ==
    (last.op = "binary" /\ OnCCD) =>
        /\ last.raised = "none"
        /\ last.rkind = "ccd"
        /\ last.rccd.good = (PreA.good /\ PreOth.good)
        /\ (PreA.good # PreOth.good) => ~last.rccd.good
        /\ last.rccd.time = PreA.time
        /\ last.rccd.nxmax = PreA.nxmax
        /\ last.rccd.nymax = PreA.nymax
        /\ last.rccd.head = PreA.head

\* a good CCD combined with a bad one on its right gave a bad CCD with
\* the left operand's time, dimensions and header, not the right one's
C1_Witness ==
    /\ last.op = "binary"
    /\ OnCCD
    /\ PreA.good /\ ~PreOth.good
    /\ last.rkind = "ccd"
    /\ ~last.rccd.good
    /\ last.rccd.time = "ta" /\ PreOth.time = "tb"
    /\ last.rccd.nxmax # PreOth.nxmax
    /\ last.rccd.head # PreOth.head
    /\ Len(last.rccd.data) >= 1

\* C2 as claimed: c op s and s op c for a number s complete and return a
\* new CCD with one window per window of c and good equal to c.good.
C2_ScalarCompletes ==
    (last.op \in {"binary", "reflected"} /\ OnScalar) =>
        /\ last.raised = "none"
        /\ last.rkind = "ccd"
        /\ Len(last.rccd.data) = Len(PreA.data)
        /\ last.rccd.good = PreA.good

\* C3 as claimed: combining a good CCD with a bad one by any binary
\* operator, the in-place ones included, in either order, gives a CCD that
\* is not good.
C3_GoodPropagates ==
    (last.op \in {"binary", "inplace"} /\ OnCCD /\ PreA.good # PreOth.good) =>
        /\ last.op = "binary" => (last.rkind = "ccd" /\ ~last.rccd.good)
        /\ last.op = "inplace" => (last.rkind = "self" /\ ~A.good)

Paired == Min2(Len(PreA.data), Len(PreOth.data))

\* C10, the value-returning half: min(len(a), len(b)) windows, the i-th
\* being a[i] op b[i], a and b unchanged
C10_Binary ==
    (last.op = "binary" /\ OnCCD) =>
        /\ last.raised = "none"
        /\ last.rkind = "ccd"
        /\ Len(last.rccd.data) = Paired
        /\ \A i \in 1..Paired :
              last.rccd.data[i] =
                 WinArith(last.arg.op, PreHeap[PreA.data[i]], PreHeap[PreOth.data[i]])
        /\ Untouched

\* C10, the in-place half: a[i] becomes a[i] op b[i] for the paired
\* positions, a's other windows, its list and metadata and b are unchanged,
\* a itself is returned
C10_InPlace ==
    /\ last.raised = "none"
    /\ last.rkind = "self"
    /\ ccd = last.pre.ccd
    /\ \A i \in 1..Paired :
          heap[A.data[i]] =
             WinIArith(last.arg.op, PreHeap[PreA.data[i]], PreHeap[PreOth.data[i]])
    /\ \A i \in (Len(PreOth.data) + 1)..Len(A.data) :
          heap[A.data[i]] = PreHeap[A.data[i]]
    /\ \A j \in 1..Len(Oth.data) : heap[Oth.data[j]] = PreHeap[Oth.data[j]]

\* C10 as claimed: CCD-CCD arithmetic pairs windows by position up to the
\* shorter list; a op b gives min(len) windows a[i] op b[i] and changes
\* neither operand; a op= b replaces a[i] by a[i] op b[i] for the paired
\* positions only, leaves the rest of a, a's metadata and b unchanged and
\* returns a.
C10_AsClaimed ==
    /\ C10_Binary
    /\ (last.op = "inplace" /\ OnCCD) => C10_InPlace

\* no Window object at a paired position of a is also at another position
\* of a or anywhere in b
NoSharing ==
    \A i \in 1..Paired :
        /\ \A k \in 1..Len(PreA.data) : k # i => PreA.data[k] # PreA.data[i]
        /\ \A j \in 1..Len(PreOth.data) : PreOth.data[j] # PreA.data[i]

\* C10 amended: as claimed, the content of a's windows and of b after
\* a op= b being as stated provided no Window object at a paired position
\* of a is also at another position of a or anywhere in b; a's list and
\* metadata are unchanged and a is returned in every case.
C10_Truncation ==
    /\ C10_Binary
    /\ (last.op = "inplace" /\ OnCCD) =>
          /\ last.raised = "none"
          /\ last.rkind = "self"
          /\ ccd = last.pre.ccd
    /\ (last.op = "inplace" /\ OnCCD /\ NoSharing) => C10_InPlace

\* a op= b on a of two windows and b of one, sharing no Window object:
\* a's first window changed, its second did not
C10_Witness ==
    /\ last.op = "inplace"
    /\ OnCCD
    /\ NoSharing
    /\ Len(A.data) = 2
    /\ Len(Oth.data) = 1
    /\ heap[A.data[1]] # PreHeap[A.data[1]]
    /\ heap[A.data[2]] = PreHeap[A.data[2]]

====
